---- MODULE Spec2Model ----
(***************************************************************************)
(* Model of scripts/spawn_basic.py: the main control thread of main(),     *)
(* statement by statement, together with the simulator side it talks to    *)
(* (frame clock, per-sensor callback delivery, external despawn) and the   *)
(* operator's Ctrl-C.                                                      *)
(***************************************************************************)
EXTENDS Integers, Sequences, FiniteSets

\* ---------------------------------------------------------------- bounds
MaxFrame == 1        \* the simulator frame counter is explored in 0..MaxFrame
MaxBudget == 1       \* --frames is explored in 0..MaxBudget

\* ------------------------------------------------------ program constants
StemWidth == 6       \* the 06 of f"{frame:06}"

Actors == {"lidar", "camera", "ego"}
Sensors == {"lidar", "camera"}
FrameBudgets == 0..MaxBudget
NoFrame == 0 - 1
NoStatus == 0 - 1

VARIABLES
  pc,            \* position of the main thread in main()
  exc,           \* exception in flight in the main thread ("none" if none)
  exitStatus,    \* process exit status, NoStatus while running
  frames,        \* args.frames
  start_frame,   \* main's start_frame, NoFrame unless set (line 107)
  target_frame,  \* main's target_frame, NoFrame unless set (line 108)
  loopIdx,       \* index of the for loop of line 119
  created,       \* actor -> the spawn call returned a handle
  alive,         \* actor -> is_alive
  listening,     \* sensor -> a callback is registered (listen .. stop)
  autopilot,     \* the vehicle's autopilot flag
  callLog,       \* every collaborator call the program made, in order
  stdout,        \* the lines printed
  dirExists,     \* sensor -> its output directory exists
  files,         \* sensor -> the file writes into its directory, in order
  simFrame,      \* the simulator's frame counter
  lastFrame,     \* sensor -> frame of the last payload handed to its callback
  inflight,      \* sensor -> frame of the callback invocation running now
  interruptedAt, \* the positions at which Ctrl-C hit the main thread
  despawned      \* the actors the simulator removed on its own

vars == <<pc, exc, exitStatus, frames, start_frame, target_frame, loopIdx,
          created, alive, listening, autopilot, callLog, stdout, dirExists,
          files, simFrame, lastFrame, inflight, interruptedAt, despawned>>

actorVars == <<created, alive, listening, autopilot>>
envLog == <<interruptedAt, despawned>>
\* what lives inside the process: the locals of main() and the callback
\* invocations the simulator's delivery threads run in it
procVars == <<start_frame, target_frame, loopIdx, lastFrame, inflight>>

\* ------------------------------------------------------- file naming
\* f"{frame:06}": the decimal digits of frame, left-padded with zeros to
\* StemWidth characters (longer numbers are not truncated).
RECURSIVE Digits(_)
Digits(n) == IF n < 10 THEN <<n>> ELSE Append(Digits(n \div 10), n % 10)

RECURSIVE ZeroPad(_, _)
ZeroPad(s, w) == IF Len(s) >= w THEN s ELSE ZeroPad(<<0>> \o s, w)

\* the name taken from half the frame index
StemBug(frame) == ZeroPad(Digits(frame \div 2), StemWidth)
Stem(frame) == ZeroPad(Digits(frame), StemWidth)

\* the number a stem denotes
RECURSIVE StemValue(_)
StemValue(s) ==
  IF s = <<>> THEN 0 ELSE 10 * StemValue(SubSeq(s, 1, Len(s) - 1)) + s[Len(s)]

\* ------------------------------------------------- control-flow helpers
\* the loop condition of line 111 evaluated outside the try
TryBodyBug == {"sleep"}
TryBody == {"poll", "sleep"}
Finally == {"stop_lidar", "stop_camera", "autopilot_off", "is_alive", "destroy"}
\* line 119 listing the vehicle first
TeardownOrderBug == <<"ego", "lidar", "camera">>
TeardownOrder == <<"lidar", "camera", "ego">>

\* status of the interpreter when main() ends with exception e
ExitCode(e) == IF e = "none" THEN 0 ELSE IF e = "KeyboardInterrupt" THEN 130 ELSE 1

\* main() ends with exception e ("none": it returns) and the process ends:
\* the locals of main() and the callback invocations in flight end with it
Ended(e) ==
  /\ pc' = "exited"
  /\ exc' = e
  /\ exitStatus' = ExitCode(e)
  /\ start_frame' = NoFrame
  /\ target_frame' = NoFrame
  /\ loopIdx' = 1
  /\ lastFrame' = [s \in Sensors |-> NoFrame]
  /\ inflight' = [s \in Sensors |-> NoFrame]

\* an exception raised at the current position: inside the try body it
\* enters the finally block and stays pending, anywhere else it ends main()
Raise(e) ==
  IF pc \in TryBody
    THEN pc' = "stop_lidar" /\ exc' = e /\ UNCHANGED <<exitStatus, procVars>>
    ELSE Ended(e)

Goto(l) == pc' = l /\ UNCHANGED <<exc, exitStatus>>

\* the statement is done, the next one is l
Step(l) == Goto(l) /\ UNCHANGED procVars

Log(a, op, r) == callLog' = Append(callLog, [actor |-> a, op |-> op, result |-> r])

Say(line) == stdout' = Append(stdout, line)

Init ==
  /\ pc = "mkdir_lidar"
  /\ exc = "none"
  /\ exitStatus = NoStatus
  /\ frames \in FrameBudgets
  /\ start_frame = NoFrame
  /\ target_frame = NoFrame
  /\ loopIdx = 1
  /\ created = [a \in Actors |-> FALSE]
  /\ alive = [a \in Actors |-> FALSE]
  /\ listening = [s \in Sensors |-> FALSE]
  /\ autopilot = FALSE
  /\ callLog = <<>>
  /\ stdout = <<>>
  /\ dirExists = [s \in Sensors |-> FALSE]
  /\ files = [s \in Sensors |-> <<>>]
  /\ simFrame = 0
  /\ lastFrame = [s \in Sensors |-> NoFrame]
  /\ inflight = [s \in Sensors |-> NoFrame]
  /\ interruptedAt = <<>>
  /\ despawned = {}

\* ------------------------------------------------------------- setup
\* out_lidar.mkdir(parents=True, exist_ok=True)
MkdirLidar ==
  /\ pc = "mkdir_lidar"
  /\ \/ dirExists' = [dirExists EXCEPT !["lidar"] = TRUE] /\ Step("mkdir_rgb")
     \/ UNCHANGED dirExists /\ Raise("OSError")
  /\ UNCHANGED <<frames, actorVars, callLog, stdout, files, simFrame, envLog>>

\* out_rgb.mkdir(parents=True, exist_ok=True)
MkdirRgb ==
  /\ pc = "mkdir_rgb"
  /\ \/ dirExists' = [dirExists EXCEPT !["camera"] = TRUE] /\ Step("connect")
     \/ UNCHANGED dirExists /\ Raise("OSError")
  /\ UNCHANGED <<frames, actorVars, callLog, stdout, files, simFrame, envLog>>

\* a setup statement that only queries the simulator: it succeeds or raises
Query(here, next, e) ==
  /\ pc = here
  /\ \/ Step(next)
     \/ Raise(e)
  /\ UNCHANGED <<frames, actorVars, callLog, stdout, dirExists, files, simFrame,
                 envLog>>

Connect == Query("connect", "blueprint_lib", "RuntimeError")
BlueprintLib == Query("blueprint_lib", "ego_bp", "RuntimeError")
EgoBp == Query("ego_bp", "spawn_pt", "IndexError")
SpawnPt == Query("spawn_pt", "spawn_ego", "IndexError")
LidarBp == Query("lidar_bp", "spawn_lidar", "IndexError")
CamBp == Query("cam_bp", "spawn_camera", "IndexError")

\* the simulator created actor a and returned its handle
Spawned(a) ==
  /\ created' = [created EXCEPT ![a] = TRUE]
  /\ alive' = [alive EXCEPT ![a] = TRUE]

\* SpawnEgo without the None check of line 80
SpawnEgoBug ==
  /\ pc = "spawn_ego"
  /\ \/ Spawned("ego") /\ Log("ego", "spawn", "ok") /\ Step("lidar_bp")
     \/ UNCHANGED <<created, alive>> /\ Log("ego", "spawn", "none")
        /\ Step("lidar_bp")
     \/ UNCHANGED <<created, alive>> /\ Log("ego", "spawn", "raise")
        /\ Raise("RuntimeError")
  /\ UNCHANGED <<frames, listening, autopilot, stdout, dirExists, files,
                 simFrame, envLog>>

\* try_spawn_actor returns the vehicle or None; None becomes a RuntimeError
SpawnEgo ==
  /\ pc = "spawn_ego"
  /\ \/ Spawned("ego") /\ Log("ego", "spawn", "ok") /\ Step("lidar_bp")
     \/ UNCHANGED <<created, alive>> /\ Log("ego", "spawn", "none")
        /\ Raise("RuntimeError")
     \/ UNCHANGED <<created, alive>> /\ Log("ego", "spawn", "raise")
        /\ Raise("RuntimeError")
  /\ UNCHANGED <<frames, listening, autopilot, stdout, dirExists, files,
                 simFrame, envLog>>

\* spawn_actor returns the sensor or raises
SpawnSensor(s, here, next) ==
  /\ pc = here
  /\ \/ Spawned(s) /\ Log(s, "spawn", "ok") /\ Step(next)
     \/ UNCHANGED <<created, alive>> /\ Log(s, "spawn", "raise")
        /\ Raise("RuntimeError")
  /\ UNCHANGED <<frames, listening, autopilot, stdout, dirExists, files,
                 simFrame, envLog>>

\* line 100 moved up to right after line 89: the lidar is registered as soon
\* as it is spawned
SpawnLidarBug ==
  /\ pc = "spawn_lidar"
  /\ \/ /\ Spawned("lidar")
        /\ listening' = [listening EXCEPT !["lidar"] = TRUE]
        /\ callLog' = callLog \o
             << [actor |-> "lidar", op |-> "spawn", result |-> "ok"],
                [actor |-> "lidar", op |-> "listen", result |-> "ok"] >>
        /\ Step("cam_bp")
     \/ /\ UNCHANGED <<created, alive, listening>>
        /\ Log("lidar", "spawn", "raise")
        /\ Raise("RuntimeError")
  /\ UNCHANGED <<frames, autopilot, stdout, dirExists, files, simFrame, envLog>>
SpawnLidar == SpawnSensor("lidar", "spawn_lidar", "cam_bp")
SpawnCamera == SpawnSensor("camera", "spawn_camera", "listen_lidar")

\* ------------------------------------------------- SETUP -> LISTENING
\* sensor.listen(callback): registers the callback, or raises
Listen(s, here, next) ==
  /\ pc = here
  /\ \/ listening' = [listening EXCEPT ![s] = TRUE] /\ Log(s, "listen", "ok")
        /\ Step(next)
     \/ UNCHANGED listening /\ Log(s, "listen", "raise") /\ Raise("RuntimeError")
  /\ UNCHANGED <<frames, created, alive, autopilot, stdout, dirExists, files,
                 simFrame, envLog>>

ListenLidar == Listen("lidar", "listen_lidar", "listen_camera")

\* line 101 registering on the lidar again
ListenCameraBug == Listen("lidar", "listen_camera", "autopilot_on")
ListenCamera == Listen("camera", "listen_camera", "autopilot_on")

\* ego.set_autopilot(True)
AutopilotOn ==
  /\ pc = "autopilot_on"
  /\ \/ /\ autopilot' = TRUE
        /\ Log("ego", "set_autopilot(True)", "ok")
        /\ Step("start_frame")
     \/ /\ UNCHANGED autopilot
        /\ Log("ego", "set_autopilot(True)", "raise")
        /\ Raise("RuntimeError")
  /\ UNCHANGED <<frames, created, alive, listening, stdout, dirExists, files,
                 simFrame, envLog>>

\* print("Capturing ..."); start_frame = world.get_snapshot().frame
StartFrame ==
  /\ pc = "start_frame"
  /\ Say("Capturing")
  /\ \/ /\ start_frame' = simFrame
        /\ Goto("target_frame")
        /\ UNCHANGED <<target_frame, loopIdx, lastFrame, inflight>>
     \/ Raise("RuntimeError")
  /\ UNCHANGED <<frames, actorVars, callLog, dirExists, files, simFrame, envLog>>

\* line 108 off by one
TargetFrameBug ==
  /\ pc = "target_frame"
  /\ target_frame' = start_frame + frames + 1
  /\ Goto("poll")
  /\ UNCHANGED <<frames, start_frame, loopIdx, lastFrame, inflight, actorVars,
                 callLog, stdout, dirExists, files, simFrame, envLog>>

\* target_frame = start_frame + args.frames
TargetFrame ==
  /\ pc = "target_frame"
  /\ target_frame' = start_frame + frames
  /\ Goto("poll")
  /\ UNCHANGED <<frames, start_frame, loopIdx, lastFrame, inflight, actorVars,
                 callLog, stdout, dirExists, files, simFrame, envLog>>

\* --------------------------------------------------------- LISTENING
\* line 111 with <= for <
PollBug ==
  /\ pc = "poll"
  /\ \/ simFrame <= target_frame /\ Step("sleep")
     \/ ~(simFrame <= target_frame) /\ Step("stop_lidar")
     \/ Raise("RuntimeError")
  /\ UNCHANGED <<frames, actorVars, callLog, stdout, dirExists, files, simFrame,
                 envLog>>

\* while world.get_snapshot().frame < target_frame
Poll ==
  /\ pc = "poll"
  /\ \/ simFrame < target_frame /\ Step("sleep")
     \/ ~(simFrame < target_frame) /\ Step("stop_lidar")
     \/ Raise("RuntimeError")
  /\ UNCHANGED <<frames, actorVars, callLog, stdout, dirExists, files, simFrame,
                 envLog>>

\* time.sleep(0.05)
Sleep ==
  /\ pc = "sleep"
  /\ Step("poll")
  /\ UNCHANGED <<frames, actorVars, callLog, stdout, dirExists, files, simFrame,
                 envLog>>

\* ---------------------------------------------------------- DRAINING
\* sensor.stop(): ends callback delivery, or raises
Stop(s, here, next) ==
  /\ pc = here
  /\ \/ listening' = [listening EXCEPT ![s] = FALSE] /\ Log(s, "stop", "ok")
        /\ Step(next)
     \/ UNCHANGED listening /\ Log(s, "stop", "raise") /\ Raise("RuntimeError")
  /\ UNCHANGED <<frames, created, alive, autopilot, dirExists, files, simFrame,
                 envLog>>

\* line 115 left out
StopLidarBug ==
  /\ pc = "stop_lidar"
  /\ Say("Stopping sensors ...")
  /\ Step("autopilot_off")
  /\ UNCHANGED <<frames, actorVars, callLog, dirExists, files, simFrame, envLog>>

\* print("Stopping sensors ..."); lidar.stop()
StopLidar ==
  /\ Say("Stopping sensors ...")
  /\ Stop("lidar", "stop_lidar", "stop_camera")

\* line 116 calling ego.destroy() where camera.stop() belongs
StopCameraBug ==
  /\ pc = "stop_camera"
  /\ alive' = [alive EXCEPT !["ego"] = FALSE]
  /\ Log("ego", "destroy", "ok")
  /\ Step("autopilot_off")
  /\ UNCHANGED <<frames, created, listening, autopilot, stdout, dirExists, files,
                 simFrame, envLog>>

\* camera.stop()
StopCamera ==
  /\ UNCHANGED stdout
  /\ Stop("camera", "stop_camera", "autopilot_off")

\* ego.set_autopilot(False); print("Destroying actors ..."); the for loop
\* starts with its first actor
AutopilotOff ==
  /\ pc = "autopilot_off"
  /\ \/ /\ autopilot' = FALSE
        /\ Log("ego", "set_autopilot(False)", "ok")
        /\ Say("Destroying actors ...")
        /\ loopIdx' = 1
        /\ Goto("is_alive")
        /\ UNCHANGED <<start_frame, target_frame, lastFrame, inflight>>
     \/ /\ UNCHANGED <<autopilot, stdout>>
        /\ Log("ego", "set_autopilot(False)", "raise")
        /\ Raise("RuntimeError")
  /\ UNCHANGED <<frames, created, alive, listening, dirExists, files, simFrame,
                 envLog>>

\* the for loop moves on to its next actor; after the last one
\* print("Done.") runs and the finally block ends: a pending exception goes
\* on to the top level, otherwise main() returns
NextActor ==
  IF loopIdx < Len(TeardownOrder)
    THEN /\ loopIdx' = loopIdx + 1
         /\ Goto("is_alive")
         /\ UNCHANGED <<stdout, start_frame, target_frame, lastFrame, inflight>>
    ELSE /\ Say("Done.")
         /\ Ended(exc)

\* line 120 left out: destroy() whatever is_alive says
IsAliveBug ==
  /\ pc = "is_alive"
  /\ Step("destroy")
  /\ UNCHANGED <<frames, actorVars, callLog, stdout, dirExists, files, simFrame,
                 envLog>>

\* if actor.is_alive:
IsAlive ==
  /\ pc = "is_alive"
  /\ IF alive[TeardownOrder[loopIdx]]
       THEN Step("destroy") /\ UNCHANGED stdout
       ELSE NextActor
  /\ UNCHANGED <<frames, actorVars, callLog, dirExists, files, simFrame, envLog>>

\* actor.destroy()
Destroy ==
  /\ pc = "destroy"
  /\ LET a == TeardownOrder[loopIdx] IN
       \/ /\ alive' = [alive EXCEPT ![a] = FALSE]
          /\ listening' = [s \in Sensors |-> listening[s] /\ s # a]
          /\ Log(a, "destroy", "ok")
          /\ NextActor
       \/ /\ UNCHANGED <<alive, listening, stdout>>
          /\ Log(a, "destroy", "raise")
          /\ Raise("RuntimeError")
  /\ UNCHANGED <<frames, created, autopilot, dirExists, files, simFrame, envLog>>

\* ------------------------------------------------------ the operator
\* Ctrl-C: KeyboardInterrupt is raised in the main thread at its current
\* statement
KeyboardInterrupt ==
  /\ pc # "exited"
  /\ interruptedAt' = Append(interruptedAt, pc)
  /\ Raise("KeyboardInterrupt")
  /\ UNCHANGED <<frames, actorVars, callLog, stdout, dirExists, files, simFrame,
                 despawned>>

\* ----------------------------------------------------- the simulator
\* the simulator advances its frame counter by one step
Tick ==
  /\ pc # "exited"
  /\ simFrame < MaxFrame
  /\ simFrame' = simFrame + 1
  /\ UNCHANGED <<pc, exc, exitStatus, frames, procVars, actorVars, callLog,
                 stdout, dirExists, files, envLog>>

\* the simulator removes an actor on its own
Despawn(a) ==
  /\ pc # "exited"
  /\ created[a] /\ alive[a]
  /\ despawned' = despawned \cup {a}
  /\ alive' = [alive EXCEPT ![a] = FALSE]
  /\ listening' = [s \in Sensors |-> listening[s] /\ s # a]
  /\ UNCHANGED <<pc, exc, exitStatus, frames, procVars, created, autopilot,
                 callLog, stdout, dirExists, files, simFrame, interruptedAt>>

\* the simulator hands the payload of the current frame to the callback
\* registered on sensor s: once per frame, one invocation in flight per sensor
CallbackBegin(s) ==
  /\ pc # "exited"
  /\ alive[s] /\ listening[s]
  /\ inflight[s] = NoFrame
  /\ lastFrame[s] < simFrame
  /\ inflight' = [inflight EXCEPT ![s] = simFrame]
  /\ lastFrame' = [lastFrame EXCEPT ![s] = simFrame]
  /\ UNCHANGED <<pc, exc, exitStatus, frames, start_frame, target_frame, loopIdx,
                 actorVars, callLog, stdout, dirExists, simFrame, files, envLog>>

\* _callback of save_lidar / save_rgb: one file named from the payload's frame
CallbackWrite(s) ==
  /\ pc # "exited"
  /\ inflight[s] # NoFrame
  /\ dirExists[s]
  /\ files' = [files EXCEPT ![s] = Append(files[s], Stem(inflight[s]))]
  /\ inflight' = [inflight EXCEPT ![s] = NoFrame]
  /\ UNCHANGED <<pc, exc, exitStatus, frames, start_frame, target_frame, loopIdx,
                 lastFrame, actorVars, callLog, stdout, dirExists, simFrame,
                 envLog>>

\* line 100 binding the lidar callback to out_rgb
SaveLidarBug ==
  /\ pc # "exited"
  /\ inflight["lidar"] # NoFrame
  /\ dirExists["camera"]
  /\ files' = [files EXCEPT !["camera"] = Append(files["camera"], Stem(inflight["lidar"]))]
  /\ inflight' = [inflight EXCEPT !["lidar"] = NoFrame]
  /\ UNCHANGED <<pc, exc, exitStatus, frames, start_frame, target_frame, loopIdx,
                 lastFrame, actorVars, callLog, stdout, dirExists, simFrame,
                 envLog>>
SaveLidar == CallbackWrite("lidar")
SaveRgb == CallbackWrite("camera")

\* -------------------------------------------------------------- system
Next ==
  \/ MkdirLidar \/ MkdirRgb
  \/ Connect \/ BlueprintLib \/ EgoBp \/ SpawnPt \/ SpawnEgo
  \/ LidarBp \/ SpawnLidar \/ CamBp \/ SpawnCamera
  \/ ListenLidar \/ ListenCamera \/ AutopilotOn
  \/ StartFrame \/ TargetFrame
  \/ Poll \/ Sleep
  \/ StopLidar \/ StopCamera \/ AutopilotOff
  \/ IsAlive \/ Destroy
  \/ KeyboardInterrupt
  \/ Tick
  \/ \E a \in Actors : Despawn(a)
  \/ \E s \in Sensors : CallbackBegin(s)
  \/ SaveLidar \/ SaveRgb

Spec == Init /\ [][Next]_vars

TypeOK ==
  /\ exitStatus \in {NoStatus, 0, 1, 130}
  /\ frames \in FrameBudgets
  /\ start_frame \in {NoFrame} \cup 0..MaxFrame
  /\ loopIdx \in 1..Len(TeardownOrder)
  /\ simFrame \in 0..MaxFrame
  /\ \A s \in Sensors : lastFrame[s] <= simFrame /\ inflight[s] <= simFrame
  /\ (pc = "exited") = (exitStatus # NoStatus)

\* ---------------------------------------------------- reading the logs
Called(a, op) ==
  \E i \in DOMAIN callLog : callLog[i].actor = a /\ callLog[i].op = op

CallCount(a, op) ==
  Cardinality({i \in DOMAIN callLog : callLog[i].actor = a /\ callLog[i].op = op})

TeardownCalls == {"stop", "set_autopilot(False)", "destroy"}

TeardownRaised ==
  \E i \in DOMAIN callLog :
    callLog[i].op \in TeardownCalls /\ callLog[i].result = "raise"

Said(line) == \E i \in DOMAIN stdout : stdout[i] = line

Narration ==
  Said("Stopping sensors ...") /\ Said("Destroying actors ...") /\ Said("Done.")

CameraSpawnRaised ==
  \E i \in DOMAIN callLog :
    callLog[i] = [actor |-> "camera", op |-> "spawn", result |-> "raise"]

EgoSpawnNone ==
  \E i \in DOMAIN callLog :
    callLog[i] = [actor |-> "ego", op |-> "spawn", result |-> "none"]

\* positions of main() at which both sensors exist and teardown has not begun
AfterSensors ==
  {"listen_lidar", "listen_camera", "autopilot_on", "start_frame",
   "target_frame", "poll", "sleep"}

Stems(s) == {files[s][i] : i \in DOMAIN files[s]}

\* ------------------------------------------------------------- claims

\* C1: when the camera's spawn_actor raises after the vehicle and the range
\* scanner were spawned, the run ends having issued destroy() to exactly the
\* vehicle and the range scanner, with a non-zero exit status.
C1_PartialSetupTeardown ==
  (pc = "exited" /\ CameraSpawnRaised) =>
    /\ {a \in Actors : Called(a, "destroy")} = {"lidar", "ego"}
    /\ exitStatus # 0

\* C2: stop() has been called on both sensors before set_autopilot(False) is
\* called, and set_autopilot(False) has been called before any destroy().
C2_StopBeforeAutopilotBeforeDestroy ==
  \A i \in DOMAIN callLog :
    /\ callLog[i].op = "set_autopilot(False)" =>
         \A s \in Sensors :
           \E j \in 1..(i - 1) : callLog[j].actor = s /\ callLog[j].op = "stop"
    /\ callLog[i].op = "destroy" =>
         \E j \in 1..(i - 1) : callLog[j].op = "set_autopilot(False)"

\* a run interrupted in time.sleep went through the whole teardown sequence
\* and destroyed the vehicle
C2_Witness ==
  /\ pc = "exited"
  /\ interruptedAt = <<"sleep">>
  /\ Called("lidar", "stop") /\ Called("camera", "stop")
  /\ Called("ego", "set_autopilot(False)")
  /\ Called("ego", "destroy")

\* C3: a Ctrl-C delivered once both sensors exist (before or inside the
\* polling loop) leads to both sensors being stopped and to no created actor
\* being left alive when the process ends.
C3_InterruptLeadsToDraining ==
  (pc = "exited" /\ interruptedAt # <<>> /\ interruptedAt[1] \in AfterSensors) =>
    /\ \A s \in Sensors : Called(s, "stop")
    /\ \A a \in Actors : created[a] => ~alive[a]

\* C4: for a positive frame budget, once the baseline is recorded, every file
\* written into a sensor's directory has a stem f with
\* baseline <= f < baseline + frames, so each directory holds at most frames
\* files.
C4_StemsWithinBudget ==
  (start_frame # NoFrame /\ frames > 0) =>
    \A s \in Sensors :
      /\ \A i \in DOMAIN files[s] :
           /\ start_frame <= StemValue(files[s][i])
           /\ StemValue(files[s][i]) < start_frame + frames
      /\ Cardinality(Stems(s)) <= frames

\* C5: when a teardown call (stop, set_autopilot(False), destroy) fails, the
\* destroy step is still attempted for every actor that is alive, and the run
\* does not end on the teardown failure.
C5_BestEffortTeardown ==
  (/\ pc = "exited"
   /\ TeardownRaised
   /\ \A i \in DOMAIN interruptedAt : interruptedAt[i] \notin Finally) =>
    /\ \A a \in Actors : (created[a] /\ alive[a]) => Called(a, "destroy")
    /\ callLog[Len(callLog)].result # "raise"

\* C6: a run that completes normally and a run interrupted during the polling
\* loop both print the teardown narration and exit with status zero; a run
\* that fails during setup exits non-zero.
C6_ExitStatus ==
  pc = "exited" =>
    /\ exc = "none" => (Narration /\ exitStatus = 0)
    /\ (/\ Len(interruptedAt) = 1
        /\ interruptedAt[1] \in TryBody
        /\ ~TeardownRaised) => (Narration /\ exitStatus = 0)
    /\ (exc \notin {"none", "KeyboardInterrupt"}
        /\ ~Said("Stopping sensors ...")) => exitStatus # 0

\* C7: each actor receives at most one destroy() call, and when the loop of
\* teardown examines an actor that is not alive it moves on to the next actor
\* (or to the end of teardown) without any call and without an exception.
C7_DestroyAtMostOnce ==
  /\ [](\A a \in Actors : CallCount(a, "destroy") <= 1)
  /\ [][(/\ pc = "is_alive"
         /\ ~alive[TeardownOrder[loopIdx]]
         /\ interruptedAt' = interruptedAt
         /\ (pc' # pc \/ loopIdx' # loopIdx)) =>
          /\ callLog' = callLog
          /\ exc' = exc
          /\ IF loopIdx < Len(TeardownOrder)
               THEN pc' = "is_alive" /\ loopIdx' = loopIdx + 1
               ELSE pc' = "exited" /\ exitStatus' = ExitCode(exc)]_vars

\* the camera was despawned by the simulator, teardown skipped it and still
\* destroyed the other two actors
C7_Witness ==
  /\ pc = "exited"
  /\ despawned = {"camera"}
  /\ ~Called("camera", "destroy")
  /\ Called("lidar", "destroy") /\ Called("ego", "destroy")
  /\ exc = "none"

\* C8: when try_spawn_actor returns no vehicle the run has ended with a
\* RuntimeError and a non-zero status, no sensor was spawned or told to
\* listen, and both output directories exist with no file written.
C8_OccupiedSpawnPoint ==
  EgoSpawnNone =>
    /\ pc = "exited" /\ exc = "RuntimeError" /\ exitStatus # 0
    /\ \A s \in Sensors :
         /\ ~created[s] /\ ~Called(s, "spawn") /\ ~Called(s, "listen")
         /\ dirExists[s] /\ files[s] = <<>>

\* try_spawn_actor returned None and the run is over
C8_Witness == EgoSpawnNone /\ pc = "exited"

\* C9: for each sensor no two file writes of a run target the same file name.
C9_NoFileRewritten ==
  \A s \in Sensors :
    \A i, j \in DOMAIN files[s] : i # j => files[s][i] # files[s][j]

\* both sensors wrote two frames, among them the same frame index
C9_Witness ==
  /\ \A s \in Sensors : Len(files[s]) >= 2
  /\ Stems("lidar") \cap Stems("camera") # {}

\* C10: listen() is called at most once on each sensor, and every listen()
\* call comes after the successful spawn of the vehicle and before any
\* destroy() of the vehicle.
C10_Registration ==
  /\ \A s \in Sensors : CallCount(s, "listen") <= 1
  /\ \A i \in DOMAIN callLog :
       callLog[i].op = "listen" =>
         /\ \E j \in 1..(i - 1) :
              callLog[j] = [actor |-> "ego", op |-> "spawn", result |-> "ok"]
         /\ ~\E j \in 1..(i - 1) :
              callLog[j].actor = "ego" /\ callLog[j].op = "destroy"

\* both sensors were registered and the run went on to destroy the vehicle
C10_Witness ==
  /\ Called("lidar", "listen") /\ Called("camera", "listen")
  /\ Called("ego", "destroy")

\* positions of main() before the callbacks are registered
SetupSteps ==
  {"connect", "blueprint_lib", "ego_bp", "spawn_pt", "spawn_ego", "lidar_bp",
   "spawn_lidar", "cam_bp", "spawn_camera"}

\* the last call the program made
LastCall(log) == log[Len(log)]

\* the order in which the spec wants the actors destroyed
DestroyRank == [lidar |-> 1, camera |-> 2, ego |-> 3]

\* C11: destroy() is only ever called on an actor that is alive at the moment
\* of the call, also when the simulator despawns actors on its own.
C11_DestroyOnlyAlive ==
  [][(callLog' # callLog /\ LastCall(callLog').op = "destroy") =>
       alive[LastCall(callLog').actor]]_vars

\* C12: destroy() calls come in the order range scanner, camera, vehicle, and
\* when the vehicle receives destroy() no sensor is alive without having had
\* its destroy step.
C12_DestroyOrder ==
  /\ \A i, j \in DOMAIN callLog :
       (i < j /\ callLog[i].op = "destroy" /\ callLog[j].op = "destroy") =>
         DestroyRank[callLog[i].actor] < DestroyRank[callLog[j].actor]
  /\ Called("ego", "destroy") =>
       \A s \in Sensors : alive[s] => Called(s, "destroy")

\* all three actors were destroyed by teardown
C12_Witness ==
  /\ \A a \in Actors : Called(a, "destroy")
  /\ pc = "exited" /\ exc = "none"

\* C13: when a setup statement (connection, template lookup, vehicle spawn,
\* sensor attachment) fails, the run ends there with no listen() call, no
\* set_autopilot(True) call and no file written, and nothing is called or
\* written afterwards.
C13_SetupErrorsEndRun ==
  /\ [][(pc \in SetupSteps /\ pc' = "exited" /\ interruptedAt' = interruptedAt) =>
         /\ exc' \in {"RuntimeError", "IndexError"}
         /\ ~\E i \in DOMAIN callLog' :
               callLog'[i].op \in {"listen", "set_autopilot(True)"}
         /\ \A s \in Sensors : files'[s] = <<>>]_vars
  /\ [][pc = "exited" => (callLog' = callLog /\ files' = files)]_vars

\* the camera attachment failed and ended the run
C13_Witness == pc = "exited" /\ CameraSpawnRaised /\ interruptedAt = <<>>

\* C14: set_autopilot(True) is called only after listen() succeeded on both
\* sensors, the baseline is read only after set_autopilot(True), target_frame
\* is start_frame + frames, and once teardown has printed "Done." the
\* vehicle's autopilot flag is off.
C14_ListeningEntryOrder ==
  /\ \A i \in DOMAIN callLog :
       callLog[i].op = "set_autopilot(True)" =>
         \A s \in Sensors :
           \E j \in 1..(i - 1) :
             callLog[j] = [actor |-> s, op |-> "listen", result |-> "ok"]
  /\ start_frame # NoFrame => Called("ego", "set_autopilot(True)")
  /\ target_frame # NoFrame =>
       (start_frame # NoFrame /\ target_frame = start_frame + frames)
  /\ pc \in TryBody => target_frame # NoFrame
  /\ Said("Done.") => ~autopilot

\* the polling loop runs with a baseline read at frame 1 and budget 1
C14_Witness ==
  /\ pc = "poll" /\ frames = 1
  /\ start_frame = 1 /\ target_frame = 2
  /\ autopilot

\* C15: without an interruption or an exception the finally block is entered
\* only when the frame counter has reached the target, and with a frame
\* budget of zero or less the loop never sleeps.
C15_StaysListening ==
  /\ (pc \in Finally /\ exc = "none") => simFrame >= target_frame
  /\ (pc \in Finally /\ exc = "none") => target_frame # NoFrame
  /\ (\E s \in Sensors : Called(s, "stop")) =>
       (pc \in Finally \cup {"exited"} /\ Said("Stopping sensors ..."))
  /\ frames <= 0 => pc # "sleep"

\* the loop slept below the target, then a poll saw the target and teardown
\* began
C15_Witness ==
  /\ pc = "stop_camera" /\ exc = "none" /\ frames = 1
  /\ start_frame = 0 /\ simFrame = 1
  /\ Called("lidar", "stop")

\* C16: once the polling loop was entered, a run that is not interrupted
\* during teardown ends having printed "Done." with no created actor left
\* alive.
C16_ReachesDone ==
  (/\ pc = "exited"
   /\ Said("Stopping sensors ...")
   /\ \A i \in DOMAIN interruptedAt : interruptedAt[i] \notin Finally) =>
    /\ Said("Done.")
    /\ \A a \in Actors : created[a] => ~alive[a]

\* C17: no callback invocation of a sensor begins after that sensor received
\* stop(), nor after the vehicle received destroy().
C17_NoCallbackAfterStop ==
  [][\A s \in Sensors :
       (inflight[s] = NoFrame /\ inflight'[s] # NoFrame) =>
         (~Called(s, "stop") /\ ~Called("ego", "destroy"))]_vars

\* both sensors delivered frames and wrote them, were stopped, and the
\* vehicle was destroyed
C17_Witness ==
  /\ Called("ego", "destroy")
  /\ \A s \in Sensors : Called(s, "stop") /\ files[s] # <<>>

C19_CallbackFrame ==
  [][\A s \in Sensors :
       /\ files'[s] # files[s] =>
            /\ inflight[s] # NoFrame /\ inflight'[s] = NoFrame
            /\ Len(files'[s]) = Len(files[s]) + 1
            /\ SubSeq(files'[s], 1, Len(files[s])) = files[s]
            /\ StemValue(files'[s][Len(files'[s])]) = inflight[s]
            /\ Len(files'[s][Len(files'[s])]) = StemWidth
            /\ \A t \in Sensors \ {s} : files'[t] = files[t]
       /\ (files'[s] # files[s] \/ (inflight[s] = NoFrame /\ inflight'[s] # NoFrame)) =>
            UNCHANGED <<pc, exc, exitStatus, frames, start_frame, target_frame,
                        loopIdx, created, alive, listening, autopilot, callLog,
                        stdout>>]_vars

\* both sensors have written the file of frame 1
C19_Witness ==
  \A s \in Sensors : Len(files[s]) >= 1 /\ StemValue(files[s][Len(files[s])]) = 1

====
